---- MODULE Spec2Model ----
(***************************************************************************)
(* Model of the Omni Axis risk agent                                       *)
(* (src/ai-services/omni-axis-risk-agent/main.py).                         *)
(*                                                                         *)
(* Numbers.  The code computes with floats; the model computes exactly in  *)
(* integers.  Bucket values and weights are in percent (0.8 -> 80, weight  *)
(* 0.15 -> 15), so a weighted factor and a risk score are in units of      *)
(* 1/10000 (0.54 -> 5400, 1.0 -> 10000).  For every combination of buckets *)
(* the scorers can produce, the float sum and the exact sum fall on the    *)
(* same side of every threshold (0.3, 0.6, 0.8, 0.95), and for the         *)
(* transaction inputs used here the float order of two scores is their     *)
(* exact order, so levels and comparisons are those of the code.           *)
(*                                                                         *)
(* Concurrency.  Every handler is an `async def` that never awaits: inside *)
(* one server process a request runs to completion.  Interleaving happens  *)
(* between server processes (workers, replicas) that share one Redis; each *)
(* Redis command is one atomic step, and the Python between two commands   *)
(* is local to the worker.                                                 *)
(***************************************************************************)
EXTENDS Integers, Sequences, FiniteSets, TLC

VARIABLES
    store,      \* Redis: user id -> the list under user_tx_history:<user id>
    ttl,        \* Redis: user id -> the key's time to live in seconds, 0 = none
    redisUp,    \* whether the Redis server can be reached
    pc,         \* worker -> position in the handler it runs
    req,        \* worker -> the request it handles
    loc,        \* worker -> locals of calculate_transaction_risk_score
    resp,       \* worker -> the HTTP response it produced
    repStub,    \* -1: check_ip_reputation as written; else a test double's score
    started,    \* user id -> transaction evaluations begun (numbers the events)
    appended,   \* user id -> every record pushed since the key was created, newest first
    outages,    \* Redis outages so far
    evals,      \* transaction evaluations begun in this run
    seen        \* user evaluations so far: <<user_data, assessment, entries stored for the user>>

vars == <<store, ttl, redisUp, pc, req, loc, resp, repStub, started, appended, outages, evals, seen>>

----------------------------------------------------------------------------
(* Bounds of the model *)

\* transaction evaluations begun per run of the concurrent specification
MaxEvals == 2

\* transaction evaluations per run of the sequential specification
MaxSeqEvals == 26

\* how many of a sequential run's transactions are the high-risk one
MaxRisky == 1

\* Redis outages per run
MaxOutages == 1

----------------------------------------------------------------------------
(* Program constants *)

\* ltrim(user_history_key, 0, 19)
HistoryLast == 19

\* lrange(user_history_key, 0, 9)
RecentLast == 9

\* expire(user_history_key, 86400 * 30)
HistoryTTL == 2592000

RISK_THRESHOLDS ==
    [low |-> 3000, medium |-> 6000, high |-> 8000, critical |-> 9500]

Min(a, b) == IF a < b THEN a ELSE b

Max(a, b) == IF a > b THEN a ELSE b

RECURSIVE Sum(_)
Sum(s) == IF s = <<>> THEN 0 ELSE Head(s) + Sum(Tail(s))

\* min(max(risk_score, 0.0), 1.0)
Clamp(x) == Min(Max(x, 0), 10000)

RiskLevel_shifted(risk_score) ==
    IF risk_score >= RISK_THRESHOLDS["high"] THEN "critical"
    ELSE IF risk_score >= RISK_THRESHOLDS["medium"] THEN "high"
    ELSE IF risk_score >= RISK_THRESHOLDS["low"] THEN "medium"
    ELSE "low"

\* the if/elif chain both scorers end with
RiskLevel(risk_score) ==
    IF risk_score >= RISK_THRESHOLDS["critical"] THEN "critical"
    ELSE IF risk_score >= RISK_THRESHOLDS["high"] THEN "high"
    ELSE IF risk_score >= RISK_THRESHOLDS["medium"] THEN "medium"
    ELSE "low"

----------------------------------------------------------------------------
(* Redis list commands *)

\* LRANGE key start stop: both ends inclusive, negative indices count from the tail
LRange(l, start, stop) ==
    LET n == Len(l)
        s == IF start < 0 THEN Max(n + start, 0) ELSE start
        e == IF stop < 0 THEN n + stop ELSE Min(stop, n - 1)
    IN  IF s > e THEN <<>> ELSE SubSeq(l, s + 1, e + 1)

\* LPUSH key value
LPush(l, v) == <<v>> \o l

\* LTRIM key start stop
LTrim(l, start, stop) == LRange(l, start, stop)

----------------------------------------------------------------------------
(* Geolocation and IP reputation *)

\* an IP address is its four octets
IsPrivateIp(ip) ==
    \/ ip[1] = 192 /\ ip[2] = 168
    \/ ip[1] = 10
    \/ ip[1] = 172
    \/ ip = <<127, 0, 0, 1>>

UnknownLocation ==
    [country |-> "Unknown", country_code |-> "XX", city |-> "Unknown",
     region |-> "Unknown", latitude |-> "0", longitude |-> "0"]

\* outcome: what requests.get did: "ok" (status 200), "http_error" (another
\* status), "timeout" or "exception"
get_ip_geolocation(ip_address, outcome) ==
    IF outcome = "ok"
    THEN [country |-> "Ruritania", country_code |-> "RU", city |-> "Strelsau",
          region |-> "Zenda", latitude |-> "48", longitude |-> "16"]
    ELSE UnknownLocation

check_ip_reputation(ip_address) ==
    [is_tor |-> FALSE, is_vpn |-> FALSE, is_proxy |-> FALSE, is_malicious |-> FALSE,
     reputation_score |-> IF IsPrivateIp(ip_address) THEN 80 ELSE 50]

\* the reputation the scorer sees: the function above, or the test double
IpReputation(ip_address) ==
    IF repStub = -1 THEN check_ip_reputation(ip_address)
    ELSE [reputation_score |-> repStub]

----------------------------------------------------------------------------
(* calculate_user_risk_score: each factor is its risk (percent), the flags *)
(* and the recommendations it appends                                      *)

Factor(risk, flags, recs) == [risk |-> risk, flags |-> flags, recs |-> recs]

IpFactor(ip_reputation) ==
    LET ip_risk == 100 - ip_reputation.reputation_score
    IN  IF ip_risk > 70
        THEN Factor(ip_risk, <<"Suspicious IP address">>,
                    <<"Verify user identity through additional channels">>)
        ELSE Factor(ip_risk, <<>>, <<>>)

AccountAgeFactor_rising(account_age_days) ==
    IF account_age_days < 1 THEN Factor(10, <<>>, <<>>)
    ELSE IF account_age_days < 7 THEN Factor(30, <<>>, <<>>)
    ELSE IF account_age_days < 30 THEN Factor(60, <<>>, <<>>)
    ELSE Factor(80, <<>>, <<>>)

AccountAgeFactor(account_age_days) ==
    IF account_age_days < 1
    THEN Factor(80, <<"New account (less than 1 day old)">>,
                <<"Apply enhanced monitoring for new accounts">>)
    ELSE IF account_age_days < 7 THEN Factor(60, <<>>, <<>>)
    ELSE IF account_age_days < 30 THEN Factor(30, <<>>, <<>>)
    ELSE Factor(10, <<>>, <<>>)

TxCountFactor(transaction_count) ==
    IF transaction_count > 50
    THEN Factor(70, <<"High frequency trading pattern">>, <<>>)
    ELSE IF transaction_count > 20 THEN Factor(40, <<>>, <<>>)
    ELSE Factor(10, <<>>, <<>>)

VolumeFactor(total_volume) ==
    IF total_volume > 100000
    THEN Factor(60, <<"High volume transactions">>, <<"Verify source of funds">>)
    ELSE IF total_volume > 50000 THEN Factor(40, <<>>, <<>>)
    ELSE Factor(10, <<>>, <<>>)

LoginFactor(failed_login_attempts) ==
    IF failed_login_attempts > 5
    THEN Factor(80, <<"Multiple failed login attempts">>,
                <<"Require password reset and 2FA">>)
    ELSE IF failed_login_attempts > 2 THEN Factor(40, <<>>, <<>>)
    ELSE Factor(10, <<>>, <<>>)

KycFactor(kyc_status) ==
    IF kyc_status = "rejected"
    THEN Factor(90, <<"KYC verification failed">>, <<"Manual review required">>)
    ELSE IF kyc_status = "pending"
    THEN Factor(50, <<"KYC verification pending">>, <<>>)
    ELSE Factor(10, <<>>, <<>>)

UserWeights_heavy == <<20, 15, 20, 15, 10, 25>>

\* the weights the user scorer multiplies its six factors by, in order
UserWeights == <<20, 15, 20, 15, 10, 20>>

LevelRecommendations_none(risk_level) == <<>>

\* the recommendations appended for the risk level
LevelRecommendations(risk_level) ==
    IF risk_level \in {"high", "critical"}
    THEN <<"Block transactions until manual review", "Escalate to compliance team">>
    ELSE IF risk_level = "medium"
    THEN <<"Apply enhanced monitoring", "Require additional verification">>
    ELSE <<>>

RECURSIVE Concat(_)
Concat(ss) == IF ss = <<>> THEN <<>> ELSE Head(ss) \o Concat(Tail(ss))

Assessment(risk_score, risk_level, flags, recommendations, confidence) ==
    [risk_score |-> risk_score, risk_level |-> risk_level, flags |-> flags,
     recommendations |-> recommendations, confidence |-> confidence]

\* the six factors of a user request, in the order the scorer appends them
UserFactors(user_data) ==
    << IpFactor(IpReputation(user_data.ip_address)),
       AccountAgeFactor(user_data.account_age_days),
       TxCountFactor(user_data.transaction_count),
       VolumeFactor(user_data.total_volume),
       LoginFactor(user_data.failed_login_attempts),
       KycFactor(user_data.kyc_status) >>

\* risk_factors: each factor's risk times its weight, in the order appended
UserRiskFactors(user_data) ==
    LET factors == UserFactors(user_data)
    IN  [i \in 1..Len(factors) |-> factors[i].risk * UserWeights[i]]

calculate_user_risk_score_history(user_data, geo_outcome) ==
    LET factors == [UserFactors(user_data) EXCEPT
                       ![3] = TxCountFactor(30 * Len(store[user_data.user_id]))]
        risk_factors == [i \in 1..6 |-> factors[i].risk * UserWeights[i]]
        risk_score == Clamp(Sum(risk_factors))
        risk_level == RiskLevel(risk_score)
    IN  Assessment(risk_score, risk_level,
                   Concat([i \in 1..6 |-> factors[i].flags]),
                   Concat([i \in 1..6 |-> factors[i].recs])
                       \o LevelRecommendations(risk_level),
                   80)

\* user_data.geolocation, when the request carries one
GivenLocation ==
    [country |-> "Freedonia", country_code |-> "FD", city |-> "Fredville",
     region |-> "Sylvania", latitude |-> "40", longitude |-> "20"]

\* geo_data; geo_outcome: what the geolocation request did, when one is made
GeoData(user_data, geo_outcome) ==
    IF user_data.has_geolocation THEN GivenLocation
    ELSE get_ip_geolocation(user_data.ip_address, geo_outcome)

calculate_user_risk_score(user_data, geo_outcome) ==
    LET geo_data == GeoData(user_data, geo_outcome)
        factors == UserFactors(user_data)
        risk_factors == UserRiskFactors(user_data)
        risk_score == Clamp(Sum(risk_factors))
        risk_level == RiskLevel(risk_score)
    IN  Assessment(risk_score, risk_level,
                   Concat([i \in 1..6 |-> factors[i].flags]),
                   Concat([i \in 1..6 |-> factors[i].recs])
                       \o LevelRecommendations(risk_level),
                   80)

----------------------------------------------------------------------------
(* calculate_transaction_risk_score: the scoring between its Redis commands *)

AmountFactor_middle(amount) ==
    IF amount > 50000 THEN Factor(20, <<>>, <<>>)
    ELSE IF amount > 10000 THEN Factor(50, <<>>, <<>>)
    ELSE Factor(20, <<>>, <<>>)

AmountFactor(amount) ==
    IF amount > 50000
    THEN Factor(80, <<"Large transaction amount">>, <<"Verify source of funds">>)
    ELSE IF amount > 10000 THEN Factor(50, <<>>, <<>>)
    ELSE Factor(20, <<>>, <<>>)

FrequencyFactor_flat(recent_transactions) == Factor(10, <<>>, <<>>)

FrequencyFactor(recent_transactions) ==
    IF Len(recent_transactions) >= 5
    THEN Factor(70, <<"High transaction frequency">>, <<>>)
    ELSE IF Len(recent_transactions) >= 3 THEN Factor(40, <<>>, <<>>)
    ELSE Factor(10, <<>>, <<>>)

CrossBorderFactor(is_cross_border) ==
    IF is_cross_border
    THEN Factor(60, <<"Cross-border transaction">>,
                <<"Verify compliance with international regulations">>)
    ELSE Factor(20, <<>>, <<>>)

\* a timestamp is [tick, hour]: the tick orders the events, hour is timestamp.hour
TimeFactor(timestamp) ==
    LET current_hour == timestamp.hour
    IN  IF current_hour < 6 \/ current_hour > 22
        THEN Factor(50, <<"Transaction outside business hours">>, <<>>)
        ELSE Factor(10, <<>>, <<>>)

PaymentFactor(payment_method) ==
    IF payment_method \in {"crypto", "anonymous"}
    THEN Factor(60, <<"High-risk payment method">>, <<>>)
    ELSE IF payment_method \in {"credit_card", "bank_transfer"}
    THEN Factor(20, <<>>, <<>>)
    ELSE Factor(30, <<>>, <<>>)

AssetFactor(asset_type) ==
    IF asset_type \in {"art", "luxury", "collectibles"}
    THEN Factor(50, <<"High-risk asset type">>, <<>>)
    ELSE Factor(20, <<>>, <<>>)

\* the weights the transaction scorer multiplies its six factors by, in order
TxWeights == <<30, 20, 15, 10, 15, 10>>

\* the six factors of a transaction request, in the order the scorer appends them
TxFactors(tx_data, recent_transactions) ==
    << AmountFactor(tx_data.amount),
       FrequencyFactor(recent_transactions),
       CrossBorderFactor(tx_data.is_cross_border),
       TimeFactor(tx_data.timestamp),
       PaymentFactor(tx_data.payment_method),
       AssetFactor(tx_data.asset_type) >>

\* risk_factors: each factor's risk times its weight, in the order appended
TxRiskFactors(tx_data, recent_transactions) ==
    LET factors == TxFactors(tx_data, recent_transactions)
    IN  [i \in 1..Len(factors) |-> factors[i].risk * TxWeights[i]]

\* from the amount factor to the risk level
ScoreTransaction(tx_data, recent_transactions) ==
    LET factors == TxFactors(tx_data, recent_transactions)
        risk_factors == TxRiskFactors(tx_data, recent_transactions)
        risk_score == Clamp(Sum(risk_factors))
    IN  Assessment(risk_score, RiskLevel(risk_score),
                   Concat([i \in 1..6 |-> factors[i].flags]),
                   Concat([i \in 1..6 |-> factors[i].recs]),
                   75)

\* timestamp.isoformat(): the text that names the instant
IsoFormat(timestamp) == <<"T", timestamp.tick, timestamp.hour>>

\* tx_record
TxRecord(tx_data, risk_score) ==
    [amount |-> tx_data.amount, timestamp |-> IsoFormat(tx_data.timestamp),
     risk_score |-> risk_score]

\* json.dumps of a tx_record: the text, as its tokens, keys and values alternating
\* in insertion order
Dumps(tx_record) ==
    <<"amount", tx_record.amount, "timestamp", tx_record.timestamp,
      "risk_score", tx_record.risk_score>>

\* json.loads: the dict the text denotes
Loads(tx_json) ==
    LET n == Len(tx_json) \div 2
    IN  [k \in {tx_json[2 * i - 1] : i \in 1..n} |->
            tx_json[2 * (CHOOSE i \in 1..n : tx_json[2 * i - 1] = k)]]

\* dict.get(key, default)
Get(dict, key, default) == IF key \in DOMAIN dict THEN dict[key] ELSE default

\* redis_client.lrange(user_history_key, 0, 9)
RecentTransactions(history) == LRange(history, 0, RecentLast)

HistoryPush_tail(history, tx_record) == history \o <<Dumps(tx_record)>>

\* redis_client.lpush(user_history_key, json.dumps(tx_record))
HistoryPush(history, tx_record) == LPush(history, Dumps(tx_record))

HistoryTrim_short(history) == LTrim(history, 0, HistoryLast - 1)

\* redis_client.ltrim(user_history_key, 0, 19)
HistoryTrim(history) == LTrim(history, 0, HistoryLast)

----------------------------------------------------------------------------
(* get_user_risk_stats: the body after the lrange                          *)

TrendOf_reversed(risk_scores) ==
    IF Len(risk_scores) > 1 /\ risk_scores[Len(risk_scores)] > risk_scores[1]
    THEN "increasing" ELSE "stable"

\* risk_scores[0] > risk_scores[-1]
TrendOf(risk_scores) ==
    IF Len(risk_scores) > 1 /\ risk_scores[1] > risk_scores[Len(risk_scores)]
    THEN "increasing" ELSE "stable"

\* np.mean: the quotient, kept as numerator and denominator
Mean(xs) == [num |-> Sum(xs), den |-> Len(xs)]

RiskStats(user_id, transactions) ==
    IF transactions = <<>>
    THEN [user_id |-> user_id, transaction_count |-> 0,
          average_risk_score |-> [num |-> 0, den |-> 1],
          high_risk_transactions |-> 0]
    ELSE LET risk_scores ==
                 [i \in 1..Len(transactions) |->
                     Get(Loads(transactions[i]), "risk_score", 0)]
             high_risk_count ==
                 Cardinality({i \in 1..Len(risk_scores) :
                                 risk_scores[i] >= RISK_THRESHOLDS["high"]})
         IN  [user_id |-> user_id, transaction_count |-> Len(transactions),
              average_risk_score |-> Mean(risk_scores),
              high_risk_transactions |-> high_risk_count,
              risk_trend |-> TrendOf(risk_scores)]

----------------------------------------------------------------------------
(* Requests *)

Users == {"u1", "u2"}

Workers == {"w1", "w2"}

\* the fields of a transaction request besides its user and its timestamp
PlainTx ==
    [amount |-> 5000, asset_type |-> "real_estate", hour |-> 12,
     payment_method |-> "bank_transfer", is_cross_border |-> FALSE]

RiskyTx ==
    [amount |-> 60000, asset_type |-> "art", hour |-> 2,
     payment_method |-> "crypto", is_cross_border |-> TRUE]

TxProfiles == {PlainTx, RiskyTx}

\* TransactionRiskData; the user's tick-th transaction
TxData(user_id, profile, tick) ==
    [transaction_id |-> <<user_id, tick>>, user_id |-> user_id,
     amount |-> profile.amount, asset_type |-> profile.asset_type,
     timestamp |-> [tick |-> tick, hour |-> profile.hour],
     ip_address |-> <<8, 8, 8, 8>>,
     payment_method |-> profile.payment_method,
     is_cross_border |-> profile.is_cross_border]

\* UserRiskData
UserData(user_id, ip, has_geo, kyc, age, tx_count, volume, failed) ==
    [user_id |-> user_id, ip_address |-> ip, has_geolocation |-> has_geo,
     kyc_status |-> kyc, account_age_days |-> age, transaction_count |-> tx_count,
     total_volume |-> volume, failed_login_attempts |-> failed]

\* the user requests of the concurrent specification
FewUsers ==
    { UserData("u1", <<8, 8, 8, 8>>, FALSE, "rejected", 0, 60, 150000, 6),
      UserData("u2", <<192, 168, 1, 5>>, TRUE, "verified", 400, 5, 1000, 0) }

GeoOutcomes == {"ok", "http_error", "timeout", "exception"}

NoReq == [kind |-> "none"]

NoLoc == [kind |-> "none"]

NoResp == [kind |-> "none"]

\* the window after k sequential evaluations of plain transactions, from no history
\* the record the tick-th of a user's sequential plain transactions leaves: its
\* lrange returned the records of the ten transactions before it, or of them all
ReplayRecord(user_id, tick) ==
    LET tx_data == TxData(user_id, PlainTx, tick)
        recent_transactions == [i \in 1..Min(tick - 1, RecentLast + 1) |-> tick - i]
        scored == ScoreTransaction(tx_data, recent_transactions)
    IN  Dumps(TxRecord(tx_data, scored.risk_score))

\* the window after k sequential evaluations of plain transactions, from no history
Replay(user_id, k) ==
    [j \in 1..Min(k, HistoryLast + 1) |-> ReplayRecord(user_id, k - j + 1)]

----------------------------------------------------------------------------
(* The handlers, one action per Redis command *)

UserOf_shared(p) == "u1"

\* the user of user_history_key
UserOf(p) == req[p].tx_data.user_id

\* POST /evaluate-transaction arrives at an idle worker
ReceiveTransaction(p, user_id, profile) ==
    /\ pc[p] = "idle"
    /\ req' = [req EXCEPT ![p] =
                  [kind |-> "tx", tx_data |-> TxData(user_id, profile, started[user_id] + 1)]]
    /\ started' = [started EXCEPT ![user_id] = @ + 1]
    /\ evals' = evals + 1
    /\ pc' = [pc EXCEPT ![p] = "lrange"]
    /\ UNCHANGED <<store, ttl, redisUp, loc, resp, repStub, appended, outages, seen>>

\* lrange, then the scoring up to tx_record
TxLrange(p) ==
    /\ pc[p] = "lrange"
    /\ redisUp
    /\ LET recent_transactions == RecentTransactions(store[UserOf(p)])
           scored == ScoreTransaction(req[p].tx_data, recent_transactions)
       IN  loc' = [loc EXCEPT ![p] =
                      [kind |-> "scored",
                       recent_count |-> Len(recent_transactions),
                       factor_risks |->
                           [i \in 1..6 |->
                               TxFactors(req[p].tx_data, recent_transactions)[i].risk],
                       risk_factors |-> TxRiskFactors(req[p].tx_data, recent_transactions),
                       frequency_risk |-> FrequencyFactor(recent_transactions).risk,
                       assessment |-> scored,
                       tx_record |-> TxRecord(req[p].tx_data, scored.risk_score)]]
    /\ pc' = [pc EXCEPT ![p] = "lpush"]
    /\ UNCHANGED <<store, ttl, redisUp, req, resp, repStub, started, appended, outages, evals, seen>>

TxLpush(p) ==
    /\ pc[p] = "lpush"
    /\ redisUp
    /\ store' = [store EXCEPT ![UserOf(p)] = HistoryPush(@, loc[p].tx_record)]
    /\ appended' = [appended EXCEPT ![UserOf(p)] = <<Dumps(loc[p].tx_record)>> \o @]
    /\ pc' = [pc EXCEPT ![p] = "ltrim"]
    /\ UNCHANGED <<ttl, redisUp, req, loc, resp, repStub, started, outages, evals, seen>>

TxLtrim(p) ==
    /\ pc[p] = "ltrim"
    /\ redisUp
    /\ store' = [store EXCEPT ![UserOf(p)] = HistoryTrim(@)]
    /\ pc' = [pc EXCEPT ![p] = "expire"]
    /\ UNCHANGED <<ttl, redisUp, req, loc, resp, repStub, started, appended, outages, evals, seen>>

\* expire (no effect on a key that does not exist), then the response
TxExpire(p) ==
    /\ pc[p] = "expire"
    /\ redisUp
    /\ ttl' = [ttl EXCEPT ![UserOf(p)] = IF store[UserOf(p)] # <<>> THEN HistoryTTL ELSE @]
    /\ resp' = [resp EXCEPT ![p] =
                   [kind |-> "assessment", status |-> 200, assessment |-> loc[p].assessment]]
    /\ pc' = [pc EXCEPT ![p] = "done"]
    /\ UNCHANGED <<store, redisUp, req, loc, repStub, started, appended, outages, evals, seen>>

\* a Redis command raises; the handler's except clause answers 500
RedisError(p) ==
    /\ pc[p] \in {"lrange", "lpush", "ltrim", "expire", "stats"}
    /\ ~redisUp
    /\ loc' = [loc EXCEPT ![p] = [kind |-> "failed", failed_at |-> pc[p]]]
    /\ resp' = [resp EXCEPT ![p] =
                   [kind |-> "error", status |-> 500,
                    detail |-> IF req[p].kind = "tx"
                               THEN "Failed to evaluate transaction risk"
                               ELSE "Failed to get risk statistics"]]
    /\ pc' = [pc EXCEPT ![p] = "done"]
    /\ UNCHANGED <<store, ttl, redisUp, req, repStub, started, appended, outages, evals, seen>>

\* POST /evaluate-user arrives at an idle worker
ReceiveUser(p, user_data, geo_outcome) ==
    /\ pc[p] = "idle"
    /\ req' = [req EXCEPT ![p] =
                  [kind |-> "user", user_data |-> user_data, geo_outcome |-> geo_outcome]]
    /\ pc' = [pc EXCEPT ![p] = "user"]
    /\ UNCHANGED <<store, ttl, redisUp, loc, resp, repStub, started, appended, outages, evals, seen>>

\* calculate_user_risk_score and the response; loc keeps the scorer's
\* risk_factors, geo_data and ip_reputation
EvaluateUser(p) ==
    /\ pc[p] = "user"
    /\ LET assessment == calculate_user_risk_score(req[p].user_data, req[p].geo_outcome)
       IN  /\ resp' = [resp EXCEPT ![p] =
                          [kind |-> "assessment", status |-> 200, assessment |-> assessment]]
           /\ seen' = seen \cup {<<req[p].user_data, assessment,
                                   Len(store[req[p].user_data.user_id])>>}
    /\ loc' = [loc EXCEPT ![p] =
                  [kind |-> "user",
                   factor_risks |-> [i \in 1..6 |-> UserFactors(req[p].user_data)[i].risk],
                   risk_factors |-> UserRiskFactors(req[p].user_data),
                   geo_data |-> GeoData(req[p].user_data, req[p].geo_outcome),
                   ip_reputation |-> IpReputation(req[p].user_data.ip_address)]]
    /\ pc' = [pc EXCEPT ![p] = "done"]
    /\ UNCHANGED <<store, ttl, redisUp, req, repStub, started, appended, outages, evals>>

\* GET /risk-stats/{user_id} arrives at an idle worker
ReceiveStats(p, user_id) ==
    /\ pc[p] = "idle"
    /\ req' = [req EXCEPT ![p] = [kind |-> "stats", user_id |-> user_id]]
    /\ pc' = [pc EXCEPT ![p] = "stats"]
    /\ UNCHANGED <<store, ttl, redisUp, loc, resp, repStub, started, appended, outages, evals, seen>>

\* lrange 0 -1, then the statistics
GetUserRiskStats(p) ==
    /\ pc[p] = "stats"
    /\ redisUp
    /\ resp' = [resp EXCEPT ![p] =
                   [kind |-> "stats", status |-> 200,
                    body |-> RiskStats(req[p].user_id, LRange(store[req[p].user_id], 0, -1))]]
    /\ pc' = [pc EXCEPT ![p] = "done"]
    /\ UNCHANGED <<store, ttl, redisUp, req, loc, repStub, started, appended, outages, evals, seen>>

\* the response leaves; the worker is free again
Respond(p) ==
    /\ pc[p] = "done"
    /\ pc' = [pc EXCEPT ![p] = "idle"]
    /\ req' = [req EXCEPT ![p] = NoReq]
    /\ loc' = [loc EXCEPT ![p] = NoLoc]
    /\ resp' = [resp EXCEPT ![p] = NoResp]
    /\ UNCHANGED <<store, ttl, redisUp, repStub, started, appended, outages, evals, seen>>

----------------------------------------------------------------------------
(* Redis itself *)

RedisGoesDown ==
    /\ redisUp
    /\ outages < MaxOutages
    /\ redisUp' = FALSE
    /\ outages' = outages + 1
    /\ UNCHANGED <<store, ttl, pc, req, loc, resp, repStub, started, appended, evals, seen>>

RedisComesUp ==
    /\ ~redisUp
    /\ redisUp' = TRUE
    /\ UNCHANGED <<store, ttl, pc, req, loc, resp, repStub, started, appended, outages, evals, seen>>

\* thirty days passed since the last expire: Redis deletes the key
KeyExpires(user_id) ==
    /\ ttl[user_id] > 0
    /\ store' = [store EXCEPT ![user_id] = <<>>]
    /\ ttl' = [ttl EXCEPT ![user_id] = 0]
    /\ appended' = [appended EXCEPT ![user_id] = <<>>]
    /\ UNCHANGED <<redisUp, pc, req, loc, resp, repStub, started, outages, evals, seen>>

----------------------------------------------------------------------------
(* Concurrent writers and readers: two workers, two users, one Redis that  *)
(* stays up.  The first user's window starts empty or as earlier           *)
(* sequential evaluations left it.                                         *)

Prefills == {0, HistoryLast, HistoryLast + 1}

InitWith(k) ==
    /\ store = [u \in Users |-> IF u = "u1" THEN Replay(u, k) ELSE <<>>]
    /\ ttl = [u \in Users |-> IF u = "u1" /\ k > 0 THEN HistoryTTL ELSE 0]
    /\ started = [u \in Users |-> IF u = "u1" THEN k ELSE 0]
    /\ appended = [u \in Users |-> IF u = "u1" THEN Replay(u, k) ELSE <<>>]
    /\ redisUp = TRUE
    /\ pc = [p \in Workers |-> "idle"]
    /\ req = [p \in Workers |-> NoReq]
    /\ loc = [p \in Workers |-> NoLoc]
    /\ resp = [p \in Workers |-> NoResp]
    /\ repStub = -1
    /\ outages = 0
    /\ evals = 0
    /\ seen = {}

Init == \E k \in Prefills : InitWith(k)

Next ==
    \/ \E p \in Workers, u \in Users, profile \in TxProfiles :
          evals < MaxEvals /\ ReceiveTransaction(p, u, profile)
    \/ \E p \in Workers : TxLrange(p)
    \/ \E p \in Workers : TxLpush(p)
    \/ \E p \in Workers : TxLtrim(p)
    \/ \E p \in Workers : TxExpire(p)
    \/ \E p \in Workers, u \in Users : ReceiveStats(p, u)
    \/ \E p \in Workers : GetUserRiskStats(p)
    \/ \E p \in Workers : Respond(p)
    \/ \E u \in Users : KeyExpires(u)

Spec == Init /\ [][Next]_vars

----------------------------------------------------------------------------
(* Concurrent writers only: the Redis commands of the evaluations of two   *)
(* workers in any order, Redis up, no key lapsing while they run.          *)

NextWriters ==
    \/ \E p \in Workers, u \in Users, profile \in TxProfiles :
          evals < MaxEvals /\ ReceiveTransaction(p, u, profile)
    \/ \E p \in Workers : TxLrange(p)
    \/ \E p \in Workers : TxLpush(p)
    \/ \E p \in Workers : TxLtrim(p)
    \/ \E p \in Workers : TxExpire(p)
    \/ \E p \in Workers : Respond(p)

SpecWriters == Init /\ [][NextWriters]_vars

----------------------------------------------------------------------------
(* Sequential evaluations: one worker, one user, from no history, each     *)
(* evaluation within thirty days of the one before, Redis up.              *)

\* the high-risk transactions among those pushed for the user
RiskyCount(user_id) ==
    Cardinality({i \in 1..Len(appended[user_id]) :
                    Loads(appended[user_id][i]).amount = RiskyTx.amount})

InitSeq == InitWith(0)

NextSeq ==
    \/ \E profile \in TxProfiles :
          /\ evals < MaxSeqEvals
          /\ profile = RiskyTx => RiskyCount("u1") < MaxRisky
          /\ ReceiveTransaction("w1", "u1", profile)
    \/ TxLrange("w1")
    \/ TxLpush("w1")
    \/ TxLtrim("w1")
    \/ TxExpire("w1")
    \/ Respond("w1")

SpecSeq == InitSeq /\ [][NextSeq]_vars

----------------------------------------------------------------------------
(* One server process serving all three endpoints, with Redis outages.     *)

NextSolo ==
    \/ \E u \in Users, profile \in TxProfiles :
          evals < MaxEvals /\ ReceiveTransaction("w1", u, profile)
    \/ TxLrange("w1")
    \/ TxLpush("w1")
    \/ TxLtrim("w1")
    \/ TxExpire("w1")
    \/ RedisError("w1")
    \/ \E user_data \in FewUsers, outcome \in GeoOutcomes :
          ReceiveUser("w1", user_data, outcome)
    \/ EvaluateUser("w1")
    \/ \E u \in Users : ReceiveStats("w1", u)
    \/ GetUserRiskStats("w1")
    \/ Respond("w1")
    \/ RedisGoesDown
    \/ RedisComesUp

SpecSolo == Init /\ [][NextSolo]_vars

----------------------------------------------------------------------------
(* The user scorer on its own: one request, drawn from the buckets' edges, *)
(* with check_ip_reputation as written or replaced by a test double.       *)

IpAddresses == {<<8, 8, 8, 8>>, <<192, 168, 1, 5>>, <<127, 0, 0, 1>>}

KycStatuses == {"verified", "pending", "rejected"}

AccountAges == {0, 1, 6, 7, 29, 30, 400}

TransactionCounts == {5, 20, 21, 50, 51, 60}

TotalVolumes == {1000, 50000, 50001, 100000, 100001, 150000}

FailedLogins == {0, 2, 3, 5, 6}

\* reputation scores of the test double, percent
StubScores == {0, 10, 20, 30}

ManyUsers ==
    { UserData("u1", ip, has_geo, kyc, age, tx_count, volume, failed) :
        ip \in IpAddresses, has_geo \in BOOLEAN, kyc \in KycStatuses,
        age \in AccountAges, tx_count \in TransactionCounts,
        volume \in TotalVolumes, failed \in FailedLogins }

InitUser ==
    /\ store = [u \in Users |-> <<>>]
    /\ ttl = [u \in Users |-> 0]
    /\ started = [u \in Users |-> 0]
    /\ appended = [u \in Users |-> <<>>]
    /\ redisUp = TRUE
    /\ pc = [p \in Workers |-> IF p = "w1" THEN "user" ELSE "idle"]
    /\ \E user_data \in ManyUsers :
          req = [p \in Workers |->
                    IF p = "w1"
                    THEN [kind |-> "user", user_data |-> user_data,
                          geo_outcome |-> IF user_data.failed_login_attempts = 0
                                          THEN "timeout" ELSE "ok"]
                    ELSE NoReq]
    /\ loc = [p \in Workers |-> NoLoc]
    /\ resp = [p \in Workers |-> NoResp]
    /\ repStub \in {-1} \cup StubScores
    /\ outages = 0
    /\ evals = 0
    /\ seen = {}

NextUser ==
    \/ EvaluateUser("w1")
    \/ Respond("w1")

SpecUser == InitUser /\ [][NextUser]_vars

----------------------------------------------------------------------------
(* The user scorer with every outcome of the geolocation request, for      *)
(* addresses inside and outside the prefixes check_ip_reputation tests.    *)

GeoIpAddresses ==
    IpAddresses \cup {<<10, 0, 0, 7>>, <<172, 16, 0, 1>>, <<172, 217, 14, 206>>,
                      <<127, 0, 0, 2>>}

GeoUsers ==
    { UserData("u1", ip, has_geo, kyc, age, 5, 1000, 0) :
        ip \in GeoIpAddresses, has_geo \in BOOLEAN, kyc \in KycStatuses,
        age \in AccountAges }

InitGeo ==
    /\ store = [u \in Users |-> <<>>]
    /\ ttl = [u \in Users |-> 0]
    /\ started = [u \in Users |-> 0]
    /\ appended = [u \in Users |-> <<>>]
    /\ redisUp = TRUE
    /\ pc = [p \in Workers |-> IF p = "w1" THEN "user" ELSE "idle"]
    /\ \E user_data \in GeoUsers, outcome \in GeoOutcomes :
          req = [p \in Workers |->
                    IF p = "w1"
                    THEN [kind |-> "user", user_data |-> user_data,
                          geo_outcome |-> outcome]
                    ELSE NoReq]
    /\ loc = [p \in Workers |-> NoLoc]
    /\ resp = [p \in Workers |-> NoResp]
    /\ repStub = -1
    /\ outages = 0
    /\ evals = 0
    /\ seen = {}

SpecGeo == InitGeo /\ [][NextUser]_vars

----------------------------------------------------------------------------
(* Either scorer on its own: one request, a user request as above or a     *)
(* transaction request drawn from the buckets' edges, on a window that     *)
(* earlier sequential evaluations left.                                    *)

Amounts == {0, 10000, 10001, 50000, 50001, 60000}

AssetTypes == {"art", "real_estate"}

Hours == {2, 5, 6, 12, 22, 23}

PaymentMethods == {"crypto", "credit_card", "wire"}

ManyTxs ==
    { [amount |-> amount, asset_type |-> asset_type, hour |-> hour,
       payment_method |-> payment_method, is_cross_border |-> is_cross_border] :
        amount \in Amounts, asset_type \in AssetTypes, hour \in Hours,
        payment_method \in PaymentMethods, is_cross_border \in BOOLEAN }

\* earlier evaluations: around the frequency factor's edges, and a full window
TxPrefills == {0, 2, 3, 4, 5, HistoryLast + 1}

InitTx ==
    \E k \in TxPrefills, profile \in ManyTxs :
        /\ store = [u \in Users |-> IF u = "u1" THEN Replay(u, k) ELSE <<>>]
        /\ ttl = [u \in Users |-> IF u = "u1" /\ k > 0 THEN HistoryTTL ELSE 0]
        /\ started = [u \in Users |-> IF u = "u1" THEN k + 1 ELSE 0]
        /\ appended = [u \in Users |-> IF u = "u1" THEN Replay(u, k) ELSE <<>>]
        /\ redisUp = TRUE
        /\ pc = [p \in Workers |-> IF p = "w1" THEN "lrange" ELSE "idle"]
        /\ req = [p \in Workers |->
                     IF p = "w1"
                     THEN [kind |-> "tx", tx_data |-> TxData("u1", profile, k + 1)]
                     ELSE NoReq]
        /\ loc = [p \in Workers |-> NoLoc]
        /\ resp = [p \in Workers |-> NoResp]
        /\ repStub = -1
        /\ outages = 0
        /\ evals = 1
        /\ seen = {}

InitPure == InitUser \/ InitTx

NextPure ==
    \/ EvaluateUser("w1")
    \/ TxLrange("w1")
    \/ TxLpush("w1")
    \/ TxLtrim("w1")
    \/ TxExpire("w1")
    \/ Respond("w1")

SpecPure == InitPure /\ [][NextPure]_vars

----------------------------------------------------------------------------
(* Properties *)

Assessed(p) == pc[p] = "done" /\ resp[p].kind = "assessment"

Has(seq, x) == \E i \in 1..Len(seq) : seq[i] = x

ScoreOf(tx_json) == Get(Loads(tx_json), "risk_score", 0)

\* the tick of the isoformat text of a stored record
TickOf(tx_json) == Loads(tx_json).timestamp[2]

\* the classification by the table {medium: 0.3, high: 0.6, critical: 0.8}
TableLevel(risk_score) ==
    IF risk_score >= 8000 THEN "critical"
    ELSE IF risk_score >= 6000 THEN "high"
    ELSE IF risk_score >= 3000 THEN "medium"
    ELSE "low"

\* C1: every assessment a user or a transaction evaluation returns has its
\* risk_score in [0,1] and its risk_level is the class of that score under the
\* cut points 0.3 (medium), 0.6 (high), 0.8 (critical).
C1_LevelFollowsTable ==
    \A p \in Workers :
        Assessed(p) =>
            /\ resp[p].assessment.risk_score \in 0..10000
            /\ resp[p].assessment.risk_level = TableLevel(resp[p].assessment.risk_score)

\* C2: between two sequential evaluations, after n of them from no history, the
\* window holds min(n, 20) records, the i-th being the record pushed by the
\* (n - i + 1)-th evaluation: the most recent ones, newest first.
C2_WindowIsLastTwenty ==
    pc["w1"] = "idle" =>
        LET n == evals
            window == store["u1"]
        IN  /\ Len(window) = Min(n, 20)
            /\ \A i \in 1..Len(window) :
                  /\ window[i] = appended["u1"][i]
                  /\ TickOf(window[i]) = n - i + 1

\* after 25 evaluations the window holds the records of evaluations 25 down to 6
C2_After25 ==
    /\ pc["w1"] = "idle"
    /\ evals = 25
    /\ Len(store["u1"]) = 20
    /\ TickOf(store["u1"][1]) = 25
    /\ TickOf(store["u1"][20]) = 6

\* worker q runs a Redis command on the window of user_id in this step
StoreStep(q, user_id) ==
    /\ pc[q] \in {"lrange", "lpush", "ltrim", "expire", "stats"}
    /\ pc'[q] # pc[q]
    /\ user_id = IF req[q].kind = "tx" THEN req[q].tx_data.user_id ELSE req[q].user_id

\* C3: while a worker is between its lpush and the end of its expire, no other
\* worker runs a Redis command of an evaluation or a stats read for the same user.
C3_WriteIsAtomic ==
    [][ \A p \in Workers, q \in Workers :
            (p # q /\ pc[p] \in {"ltrim", "expire"}) => ~StoreStep(q, UserOf(p)) ]_vars

\* C4: in every reachable state a user's window holds at most 20 entries, and no
\* risk-stats response reports a transaction_count above 20.
C4_WindowAtMostTwenty ==
    /\ \A u \in Users : Len(store[u]) <= 20
    /\ \A p \in Workers :
          resp[p].kind = "stats" => resp[p].body.transaction_count <= 20

\* C5: a transaction evaluation that found Redis unreachable still answers with
\* an assessment, not an error; when it was the read that failed, the assessment
\* is the one scored over no recent transactions (frequency risk 0.1, no
\* high-frequency flag).
C5_OutageStillAssessed ==
    \A p \in Workers :
        (pc[p] = "done" /\ req[p].kind = "tx" /\ loc[p].kind = "failed") =>
            /\ resp[p].kind = "assessment"
            /\ loc[p].failed_at = "lrange" =>
                  /\ resp[p].assessment = ScoreTransaction(req[p].tx_data, <<>>)
                  /\ ~Has(resp[p].assessment.flags, "High transaction frequency")

\* worker p answers a stats read of a window of at least two entries in this step
StatsStep(p) ==
    /\ pc[p] = "stats"
    /\ pc'[p] = "done"
    /\ resp'[p].kind = "stats"
    /\ Len(store[req[p].user_id]) >= 2

\* the most recently appended entry of the window, and the oldest one retained
NewestScore(user_id) == ScoreOf(appended[user_id][1])

OldestScore(user_id) == ScoreOf(appended[user_id][Len(store[user_id])])

\* C6 as claimed: the trend of a window of at least two entries is "increasing"
\* exactly when the oldest retained score is above the newest, else "stable".
C6_TrendOldestAboveNewest ==
    [][ \A p \in Workers :
            StatsStep(p) =>
                resp'[p].body.risk_trend =
                    IF OldestScore(req[p].user_id) > NewestScore(req[p].user_id)
                    THEN "increasing" ELSE "stable" ]_vars

\* C6, amended: the trend of a window of at least two entries is "increasing"
\* exactly when the newest score is above the oldest retained one, else "stable".
C6_TrendNewestAboveOldest ==
    [][ \A p \in Workers :
            StatsStep(p) =>
                resp'[p].body.risk_trend =
                    IF NewestScore(req[p].user_id) > OldestScore(req[p].user_id)
                    THEN "increasing" ELSE "stable" ]_vars

\* a stats response over at least two entries that says "increasing"
C6_IncreasingReported ==
    \E p \in Workers :
        /\ resp[p].kind = "stats"
        /\ resp[p].body.transaction_count >= 2
        /\ resp[p].body.risk_trend = "increasing"
        /\ store[req[p].user_id] # <<>>
        /\ NewestScore(req[p].user_id) > OldestScore(req[p].user_id)

\* the user of the boundary scenario, answered, with a reputation score <= 0.3
BoundaryUserAssessed(p) ==
    /\ Assessed(p)
    /\ req[p].kind = "user"
    /\ req[p].user_data.kyc_status = "rejected"
    /\ req[p].user_data.account_age_days = 0
    /\ req[p].user_data.transaction_count = 60
    /\ req[p].user_data.total_volume = 150000
    /\ req[p].user_data.failed_login_attempts = 6
    /\ IpReputation(req[p].user_data.ip_address).reputation_score <= 30

ScenarioTxAssessed(p) ==
    /\ Assessed(p)
    /\ req[p].kind = "tx"
    /\ req[p].tx_data.amount = 60000
    /\ req[p].tx_data.payment_method = "crypto"
    /\ req[p].tx_data.is_cross_border
    /\ req[p].tx_data.asset_type = "art"
    /\ req[p].tx_data.timestamp.hour = 2
    /\ loc[p].recent_count = 0

RestOf(tx_data) ==
    IF tx_data.amount = RiskyTx.amount THEN 5200 ELSE 1500

\* C9: the n-th of a user's sequential evaluations reads c = min(n - 1, 10)
\* entries; its frequency risk is 0.7 with the high-frequency flag if c >= 5,
\* 0.4 if c is 3 or 4, 0.1 if c <= 2: 0.1 for evaluations 1 to 3, 0.4 for 4 and
\* 5, 0.7 from the 6th on; the score is the rest of the sum plus 0.2 times it.
C9_FrequencyByPosition ==
    loc["w1"].kind = "scored" =>
        LET n == req["w1"].tx_data.timestamp.tick
            c == loc["w1"].recent_count
            f == loc["w1"].frequency_risk
            a == loc["w1"].assessment
        IN  /\ c = Min(n - 1, 10)
            /\ f = IF c >= 5 THEN 70 ELSE IF c >= 3 THEN 40 ELSE 10
            /\ f = IF n >= 6 THEN 70 ELSE IF n >= 4 THEN 40 ELSE 10
            /\ Has(a.flags, "High transaction frequency") <=> c >= 5
            /\ a.risk_score = RestOf(req["w1"].tx_data) + 20 * f

\* the window holds two records of identical transactions with different scores,
\* one scored among the first three and one scored sixth or later
C9_SameTransactionTwoScores ==
    \E i, j \in 1..Len(store["u1"]) :
        /\ Loads(store["u1"][i]).amount = Loads(store["u1"][j]).amount
        /\ TickOf(store["u1"][i]) <= 3
        /\ TickOf(store["u1"][j]) >= 6
        /\ ScoreOf(store["u1"][i]) + 1200 = ScoreOf(store["u1"][j])

\* worker p answers a user evaluation in this step
UserStep(p) == pc[p] = "user" /\ pc'[p] = "done"

\* C10: a user evaluation leaves every window and its expiry as they were, and
\* its assessment is the one every earlier evaluation of the same request got,
\* whatever was stored for the user in between.
C10_UserEvaluationIsPure ==
    [][ \A p \in Workers :
            UserStep(p) =>
                /\ store' = store
                /\ ttl' = ttl
                /\ \A earlier \in seen :
                      earlier[1] = req[p].user_data =>
                          earlier[2] = resp'[p].assessment ]_vars

\* one request evaluated twice, with transactions stored for its user in between
C10_EvaluatedTwice ==
    \E first, second \in seen :
        /\ first[1] = second[1]
        /\ first[2] = second[2]
        /\ first[3] < second[3]

\* worker p answers a stats read in this step
AnyStatsStep(p) ==
    /\ pc[p] = "stats"
    /\ pc'[p] = "done"
    /\ resp'[p].kind = "stats"

\* the retained entries of a window whose stored score is at or above 0.6
AtOrAboveTableHigh(window) ==
    {i \in 1..Len(window) : ScoreOf(window[i]) >= 6000}

\* C11: the high_risk_transactions a stats read returns is the number of entries
\* of the window it read whose stored risk score is at or above 0.6, the `high`
\* cut point of the table {medium: 0.3, high: 0.6, critical: 0.8}.
C11_HighCountByTable ==
    [][ \A p \in Workers :
            AnyStatsStep(p) =>
                resp'[p].body.high_risk_transactions =
                    Cardinality(AtOrAboveTableHigh(store[req[p].user_id])) ]_vars

\* the fields of the stats response of a window that holds entries
StatsFields ==
    {"user_id", "transaction_count", "average_risk_score", "high_risk_transactions",
     "risk_trend"}

\* C12: a stats read that finds no history for the user (never stored, or
\* expired) answers transaction_count 0, average_risk_score 0.0 and
\* high_risk_transactions 0, with the same fields as the answer for a window that
\* holds entries: user_id, transaction_count, average_risk_score,
\* high_risk_transactions and risk_trend.
C12_EmptyStatsSameShape ==
    [][ \A p \in Workers :
            (AnyStatsStep(p) /\ store[req[p].user_id] = <<>>) =>
                /\ resp'[p].body.transaction_count = 0
                /\ resp'[p].body.average_risk_score.num = 0
                /\ resp'[p].body.high_risk_transactions = 0
                /\ DOMAIN resp'[p].body = StatsFields ]_vars

\* the private ranges 10/8, 172.16/12 and 192.168/16, and the loopback range 127/8
IsPrivateOrLoopback(ip) ==
    \/ ip[1] = 10
    \/ ip[1] = 172 /\ ip[2] \in 16..31
    \/ ip[1] = 192 /\ ip[2] = 168
    \/ ip[1] = 127

\* worker p answered a user evaluation whose geolocation request failed
LookupFailed(p) ==
    /\ pc[p] = "done"
    /\ req[p].kind = "user"
    /\ ~req[p].user_data.has_geolocation
    /\ req[p].geo_outcome \in {"http_error", "timeout", "exception"}

\* C13: a user evaluation whose geolocation request timed out, raised or
\* answered another status than 200 still answers 200 with an assessment; its
\* location is the "Unknown" record, and the reputation score it used is 0.8 for
\* a private or loopback address and 0.5 for any other.
C13_LookupFailureDegrades ==
    \A p \in Workers :
        LookupFailed(p) =>
            /\ resp[p].kind = "assessment"
            /\ resp[p].status = 200
            /\ loc[p].geo_data = UnknownLocation
            /\ loc[p].ip_reputation.reputation_score =
                  IF IsPrivateOrLoopback(req[p].user_data.ip_address) THEN 80 ELSE 50

\* the weight each factor of a scorer's risk_factors was multiplied by
AppliedWeights(scored) ==
    [i \in 1..Len(scored.risk_factors) |->
        scored.risk_factors[i] \div scored.factor_risks[i]]

\* the scorer's locals of worker p are those of a finished scoring
Scored(p) == loc[p].kind \in {"user", "scored"}

\* the risk_score worker p's scorer returned
ScoredRisk(p) ==
    IF loc[p].kind = "user" THEN resp[p].assessment.risk_score
    ELSE loc[p].assessment.risk_score

\* C14: whatever the request, a scorer adds six factors, each its risk times
\* its weight: 0.20, 0.15, 0.20, 0.15, 0.10, 0.20 in the user scorer and 0.30,
\* 0.20, 0.15, 0.10, 0.15, 0.10 in the transaction scorer; the weights applied
\* sum to 1.0 and the risk_score is the sum of the six products.
C14_WeightsSumToOne ==
    \A p \in Workers :
        Scored(p) =>
            LET weights == AppliedWeights(loc[p])
            IN  /\ Len(loc[p].risk_factors) = 6
                /\ \A i \in 1..6 :
                      loc[p].risk_factors[i] = weights[i] * loc[p].factor_risks[i]
                /\ weights = IF loc[p].kind = "user"
                             THEN <<20, 15, 20, 15, 10, 20>>
                             ELSE <<30, 20, 15, 10, 15, 10>>
                /\ Sum(weights) = 100
                /\ ScoredRisk(p) = Sum(loc[p].risk_factors)

\* a transaction scored with every factor in its highest bucket
C14_AllFactorsHighest ==
    \E p \in Workers :
        /\ loc[p].kind = "scored"
        /\ loc[p].factor_risks = <<80, 70, 60, 50, 60, 50>>
        /\ loc[p].assessment.risk_score = 6600

\* the risk_score of the request of worker p with another account age
ScoreAtAge(p, account_age_days) ==
    calculate_user_risk_score(
        [req[p].user_data EXCEPT !.account_age_days = account_age_days],
        req[p].geo_outcome).risk_score

\* C15: the risk_score of a user request is at least the risk_score of every
\* request that differs from it only by a larger account_age_days, the
\* reputation being the same for both.
C15_OlderAccountNeverRiskier ==
    \A p \in Workers :
        (Assessed(p) /\ req[p].kind = "user") =>
            \A older \in AccountAges :
                older > req[p].user_data.account_age_days =>
                    ScoreAtAge(p, older) <= resp[p].assessment.risk_score

\* a request with a six-day-old account scored 0.045 above the same request with
\* a seven-day-old account
C15_WeekOldScoresLower ==
    \E p \in Workers :
        /\ Assessed(p)
        /\ req[p].kind = "user"
        /\ req[p].user_data.account_age_days = 6
        /\ ScoreAtAge(p, 7) + 450 = resp[p].assessment.risk_score

\* the risk_score of the request of worker p with another amount, against the
\* history as it is now
ScoreAtAmount(p, amount) ==
    ScoreTransaction([req[p].tx_data EXCEPT !.amount = amount],
                     RecentTransactions(store[UserOf(p)])).risk_score

\* worker p has scored its transaction and not yet written to the window
JustScored(p) == pc[p] = "lpush" /\ loc[p].kind = "scored"

\* C16: the risk_score of a transaction request is at most the risk_score of
\* every request that differs from it only by a larger amount, scored against
\* the same history of the user.
C16_LargerAmountNeverSafer ==
    \A p \in Workers :
        JustScored(p) =>
            \A larger \in Amounts :
                larger > req[p].tx_data.amount =>
                    ScoreAtAmount(p, larger) >= loc[p].assessment.risk_score

\* a request of amount 10000 scored 0.09 below the same request of amount 10001
C16_AboveTenThousandScoresHigher ==
    \E p \in Workers :
        /\ JustScored(p)
        /\ req[p].tx_data.amount = 10000
        /\ loc[p].recent_count = 5
        /\ ScoreAtAmount(p, 10001) = loc[p].assessment.risk_score + 900

\* no evaluation is between its arrival and its response
AllCompleted == \A p \in Workers : pc[p] \in {"idle", "done"}

\* C17: started[u] is k + N, the entries the window of u held at the start plus
\* the evaluations begun for u since.  Whatever the order of the lrange, lpush,
\* ltrim and expire steps of the N evaluations, once all have completed the
\* window holds min(k + N, 20) entries, they are the most recently pushed
\* records in push order, newest first, every evaluation's record was pushed,
\* and the key's expiry is the 30 days.
C17_NoRecordLostButByCap ==
    AllCompleted =>
        \A u \in Users :
            /\ Len(appended[u]) = started[u]
            /\ Len(store[u]) = Min(started[u], 20)
            /\ store[u] = SubSeq(appended[u], 1, Len(store[u]))
            /\ started[u] > 0 => ttl[u] = HistoryTTL

\* two evaluations for one user on a window of 19 entries, the one that arrived
\* second pushing first: both completed, 20 entries are left, the oldest is gone
C17_TwoOverlappedOnNineteen ==
    /\ AllCompleted
    /\ started["u1"] = 21
    /\ Len(store["u1"]) = 20
    /\ TickOf(store["u1"][1]) = 20
    /\ TickOf(store["u1"][2]) = 21
    /\ TickOf(store["u1"][20]) = 2

\* worker p runs a Redis command of its transaction evaluation in this step
TxStep(p) ==
    /\ req[p].kind = "tx"
    /\ pc[p] \in {"lrange", "lpush", "ltrim", "expire"}
    /\ pc'[p] # pc[p]

\* after is before with one record added at the front
PushedAtFront(before, after) ==
    /\ Len(after) = Len(before) + 1
    /\ Tail(after) = before

\* after is before without its records beyond position 20
CutBeyondTwenty(before, after) ==
    /\ Len(before) > 20
    /\ after = SubSeq(before, 1, 20)

\* C18: a step of a transaction evaluation for user A leaves the window and the
\* expiry of every other user as they were; what it read is A's window; and A's
\* window after the step is as before, or with one record added at the front,
\* or without the records beyond position 20: no stored record is changed.
C18_OnlyOwnWindowTouched ==
    [][ \A p \in Workers :
            TxStep(p) =>
                LET A == req[p].tx_data.user_id
                IN  /\ \A u \in Users \ {A} : store'[u] = store[u] /\ ttl'[u] = ttl[u]
                    /\ pc[p] = "lrange" =>
                          loc'[p].recent_count = Len(LRange(store[A], 0, RecentLast))
                    /\ \/ store'[A] = store[A]
                       \/ PushedAtFront(store[A], store'[A])
                       \/ CutBeyondTwenty(store[A], store'[A]) ]_vars

\* an evaluation for u2 has completed beside the full window of u1
C18_OtherWindowFull ==
    \E p \in Workers :
        /\ Assessed(p)
        /\ req[p].kind = "tx"
        /\ req[p].tx_data.user_id = "u2"
        /\ Len(store["u2"]) = 1
        /\ ttl["u2"] = HistoryTTL
        /\ Len(store["u1"]) = 20
        /\ store["u1"] = appended["u1"]

====
